---- MODULE Spec2Model ----
(***************************************************************************)
(* Model of the ftm-datalake ingestion workers:                            *)
(*   - ftm_datalake/worker.py          DatasetWorker (exception,           *)
(*                                     local_file, make_cache_key)         *)
(*   - ftm_datalake/sync/memorious.py  MemoriousWorker and the key         *)
(*                                     derivation functions                *)
(* The task loop of anystore.worker.Worker and the anycache decorator are  *)
(* external; they are modelled from their contract (get_tasks, handle_task *)
(* per task, exception on error, done, return status; get-or-compute).     *)
(***************************************************************************)
EXTENDS Integers, Sequences, FiniteSets, TLC

\* ---------------------------------------------------------------- bounds
MaxTasks == 2
MaxRuns == 2
MaxScopes == 3
MaxPathLen == 4
MaxPrefixLen == 2
MaxDiffKeys == 3
MaxVersions == 2
MaxThreads == 2

\* ------------------------------------------------------------- constants
None == "None"

cache_prefix == "ftm_datalake"

DatasetName == "test_dataset"

\* the uri of the memorious store, as urlparse splits it
MemoriousUri == [scheme |-> "s3", netloc |-> "bucket", path |-> <<"/", "m">>]

\* the *.json keys of the memorious store, in listing order
Tasks == 1..MaxTasks

\* ------------------------------------------------------ strings and urls
\* A path is a sequence of tokens: a token is one literal character or name
\* chunk, or one percent-escape ("%20", "%2F").

unquote_token(c) ==
    IF c = "%20" THEN " " ELSE IF c = "%2F" THEN "/" ELSE c

unquote(s) ==
    [i \in 1..Len(s) |-> unquote_token(s[i])]

RECURSIVE lstrip(_)
lstrip(s) ==
    IF s # <<>> /\ Head(s) = "/" THEN lstrip(Tail(s)) ELSE s

RECURSIVE rstrip(_)
rstrip(s) ==
    IF s # <<>> /\ s[Len(s)] = "/" THEN rstrip(SubSeq(s, 1, Len(s) - 1)) ELSE s

strip(s) ==
    rstrip(lstrip(s))

\* index of the last "/" of s, 0 when there is none
RECURSIVE LastSlash(_)
LastSlash(s) ==
    IF s = <<>> THEN 0
    ELSE IF s[Len(s)] = "/" THEN Len(s)
    ELSE LastSlash(SubSeq(s, 1, Len(s) - 1))

\* pathlib.Path(s).name: the final component, trailing slashes ignored
PathName(s) ==
    LET t == rstrip(s) IN SubSeq(t, LastSlash(t) + 1, Len(t))

urlparse(url) ==
    url

\* -------------------------------------------------- key derivation policies
\* mutant: the slashes are stripped before the path is percent-decoded
get_file_key_strip_first(data) ==
    unquote(strip(urlparse(data["url"]).path))

get_file_key(data) ==
    strip(unquote(urlparse(data["url"]).path))

get_file_name(data) ==
    unquote(PathName(urlparse(data["url"]).path))

\* str.startswith
startswith(s, p) ==
    Len(p) <= Len(s) /\ SubSeq(s, 1, Len(p)) = p

\* mutant: the prefix is cut off without looking whether the key has it
get_file_name_strip_func_nocheck(strip_prefix, data) ==
    LET sp == strip(strip_prefix)
        key == get_file_key(data)
    IN strip(SubSeq(key, Len(sp) + 1, Len(key)))

\* get_file_name_strip_func(strip_prefix)(data)
get_file_name_strip_func(strip_prefix, data) ==
    LET sp == strip(strip_prefix)
        key == get_file_key(data)
    IN IF startswith(key, sp) THEN strip(SubSeq(key, Len(sp) + 1, Len(key))) ELSE key

\* the placeholders a template may hold, and the field each one names
Placeholders == {"{_file_name}"}

PlaceholderField(tok) ==
    "_file_name"

\* util.render: every placeholder is replaced by the field's value
render(tmpl, data) ==
    [i \in 1..Len(tmpl) |->
        IF tmpl[i] \in Placeholders THEN data[PlaceholderField(tmpl[i])] ELSE tmpl[i]]

\* get_file_name_templ_func(tmpl)(data)
get_file_name_templ_func(tmpl, data) ==
    render(tmpl, data)

KeyFuncs == {"get_file_key", "get_file_name"}

\* key_func(data); arg is the closure variable of the strip and template
\* policies (strip_prefix, tmpl)
key_func_apply(kf, arg, data) ==
    IF kf = "get_file_name" THEN get_file_name(data)
    ELSE IF kf = "get_file_name_strip_func" THEN get_file_name_strip_func(arg, data)
    ELSE IF kf = "get_file_name_templ_func" THEN get_file_name_templ_func(arg, data)
    ELSE get_file_key(data)

\* ------------------------------------------------------ the memorious store
Urls ==
    { [scheme |-> "https", netloc |-> "x", path |-> <<"/", "a", "/", "x">>],
      [scheme |-> "https", netloc |-> "x", path |-> <<"/", "b", "/", "x">>] }

\* (content_hash, _file_name) of the metadata objects: without checksum,
\* without payload reference, and two complete ones that differ in both
Contents ==
    { <<None, "f1">>, <<"h1", None>>, <<"h1", "f1">>, <<"h2", "f2">> }

\* info(payload).size
PayloadSize(f) ==
    IF f = "f1" THEN 1 ELSE 2

\* a metadata object: a mapping with "url" and, optionally, "content_hash"
\* and "_file_name"
Meta(h, f, u) ==
    LET dom == {"url"} \cup (IF h = None THEN {} ELSE {"content_hash"})
                       \cup (IF f = None THEN {} ELSE {"_file_name"})
    IN [k \in dom |-> IF k = "url" THEN u ELSE IF k = "content_hash" THEN h ELSE f]

MetaSet ==
    { Meta(c[1], c[2], u) : c \in Contents, u \in Urls }

\* dict.get(k) / dict.pop(k, None)
dict_get(d, k) ==
    IF k \in DOMAIN d THEN d[k] ELSE None

dict_pop(d, k) ==
    [j \in DOMAIN d \ {k} |-> d[j]]


\* ------------------------------------------------------------------ state
VARIABLES
    memorious,    \* the memorious store: task (json key) -> metadata mapping
    key_func,     \* MemoriousWorker.key_func
    debug,        \* settings.debug (strict mode)
    files,        \* the dataset: key -> File Record
    cache,        \* the Memoization Cache: cache key -> stored value
    clock,        \* datetime.now()
    status,       \* MemoriousStatus of the current run
    pc,           \* "idle", "running", "returned" (run() returned), "raised"
    queue,        \* tasks of get_tasks() not handled yet
    run,          \* number of import_memorious calls so far
    outcome,      \* per task of the current run: what handle_task did
    ret,          \* value returned by the last handle_task (0: none yet)
    loads,        \* memorious.get calls of the current run
    errlog,       \* log_error calls of the current run
    doneCalls,    \* done() calls of the current run
    documents,    \* result of dataset.documents.write()
    index,        \* result of dataset.make_index()
    size,         \* result of dataset.make_size()
    prev,         \* the previous run, as it ended
    start,        \* the dataset and the cache as the current run found them
    lf_pc,        \* local_file: "out", "derive", "body"
    lf_tmp,       \* local_file: tmp (0: None)
    lf_downloaded,\* local_file: tmp.download returned
    lf_exit,      \* local_file: how the last scope was left
    lf_file,      \* local_file: the File yielded (<<>>: none)
    lf_calls,     \* local_file: scopes entered so far
    lf_uri,       \* local_file: uri
    lf_store,     \* local_file: store
    temps,        \* temporary stores of get_virtual() not cleaned up
    key_arg,      \* strip_prefix / tmpl of the key policy (<<>>: none)
    inflight,     \* parallel run: task -> what its thread decided so far
    fn_pc,        \* pure functions: "off", "call", "return"
    fn_in,        \* pure functions: the arguments
    fn_out,       \* pure functions: the results
    cli,          \* the command line: STATE, the command and how far it got
    blobs,        \* the Object Store of the archive: key -> checksum of the bytes
    versions,     \* the versions of the Dataset Index, by marker
    report        \* what the last rebuild reported

workerVars ==
    <<memorious, key_func, debug, files, cache, clock, status, pc, queue, run,
      outcome, ret, loads, errlog, doneCalls, documents, index, size, prev, start>>

stageVars ==
    <<lf_pc, lf_tmp, lf_downloaded, lf_exit, lf_file, lf_calls, lf_uri, lf_store, temps>>

auxVars ==
    <<key_arg, inflight, fn_pc, fn_in, fn_out, cli, blobs, versions, report>>

vars ==
    <<workerVars, stageVars, auxVars>>

\* ----------------------------------------------------------- cache keys
make_cache_key(dataset_name, action, extra) ==
    <<cache_prefix, dataset_name, action>> \o extra

\* anystore.util.make_data_checksum: a digest of the uri
make_data_checksum(uri) ==
    <<"sha1", uri>>

\* get_cache_key for a worker on dataset dataset_name whose store is at uri
get_cache_key_of(dataset_name, uri, key) ==
    LET netloc == urlparse(uri).netloc
        host == IF netloc = None THEN make_data_checksum(uri) ELSE netloc
    IN make_cache_key(dataset_name, "sync", <<"memorious", host, key>>)

get_cache_key(key) ==
    get_cache_key_of(DatasetName, MemoriousUri, key)

\* mutant: the decorator never finds a stored value
CacheHit_never(task) ==
    FALSE

\* anycache: the stored value is reused when the key holds one
CacheHit(task) ==
    get_cache_key(task) \in DOMAIN cache

\* ---------------------------------------------------------- the dataset
exists(key) ==
    key \in DOMAIN files

\* archive_file registers the File Record under its key
archive_file(file) ==
    [k \in DOMAIN files \cup {file.key} |-> IF k = file.key THEN file ELSE files[k]]

RECURSIVE SumSize(_, _)
SumSize(fs, keys) ==
    IF keys = {} THEN 0
    ELSE LET k == CHOOSE x \in keys : TRUE IN fs[k].size + SumSize(fs, keys \ {k})

\* ------------------------------------------------------- MemoriousWorker
IOFail == {"ok", "get", "info", "archive_file"}

ZeroStatus ==
    [added |-> 0, skipped |-> 0, not_found |-> 0]

get_tasks ==
    [i \in 1..MaxTasks |-> i]

\* mutant: the key of the policy is taken as it is
file_key_raw(k) ==
    k

\* File(key=key.strip("/"), ...)
file_key(k) ==
    strip(k)

\* mutant: a missing _file_name is not counted as not_found
load_memorious_uncounted(key, io) ==
    IF io = "get" THEN [raised |-> TRUE, file |-> <<>>, not_found |-> 0]
    ELSE
    LET content_hash == dict_get(memorious[key], "content_hash")
        data == dict_pop(memorious[key], "content_hash")
    IN  IF content_hash = None
        THEN [raised |-> FALSE, file |-> <<>>, not_found |-> 1]
        ELSE IF dict_get(data, "_file_name") = None
        THEN [raised |-> FALSE, file |-> <<>>, not_found |-> 0]
        ELSE IF io = "info"
        THEN [raised |-> TRUE, file |-> <<>>, not_found |-> 0]
        ELSE LET k == key_func_apply(key_func, key_arg, data) IN
             [raised |-> FALSE,
              file |-> << [key |-> file_key(k),
                           name |-> PathName(k),
                           size |-> PayloadSize(data["_file_name"]),
                           content_hash |-> content_hash,
                           store |-> MemoriousUri,
                           dataset |-> DatasetName,
                           extra |-> data] >>,
              not_found |-> 0]

\* file: <<>> is None, <<f>> is the File
load_memorious(key, io) ==
    IF io = "get" THEN [raised |-> TRUE, file |-> <<>>, not_found |-> 0]
    ELSE
    LET content_hash == dict_get(memorious[key], "content_hash")
        data == dict_pop(memorious[key], "content_hash")
    IN  IF content_hash = None
        THEN [raised |-> FALSE, file |-> <<>>, not_found |-> 1]
        ELSE IF dict_get(data, "_file_name") = None
        THEN [raised |-> FALSE, file |-> <<>>, not_found |-> 1]
        ELSE IF io = "info"
        THEN [raised |-> TRUE, file |-> <<>>, not_found |-> 0]
        ELSE LET k == key_func_apply(key_func, key_arg, data) IN
             [raised |-> FALSE,
              file |-> << [key |-> file_key(k),
                           name |-> PathName(k),
                           size |-> PayloadSize(data["_file_name"]),
                           content_hash |-> content_hash,
                           store |-> MemoriousUri,
                           dataset |-> DatasetName,
                           extra |-> data] >>,
              not_found |-> 0]

\* mutant: no existence check, an existing key is archived again
body_branch_overwrite(file) ==
    IF file # <<>> THEN "archive" ELSE "none"

\* the branch of handle_task's body for the loaded file
body_branch(file) ==
    IF file # <<>>
    THEN IF ~exists(file[1].key) THEN "archive" ELSE "skip"
    ELSE "none"

\* mutant: the error is re-raised whatever settings.debug is
exception_always(dbg) ==
    [logged |-> 1, reraise |-> TRUE]

\* mutant: the error is swallowed whatever settings.debug is
exception_never(dbg) ==
    [logged |-> 1, reraise |-> FALSE]

\* DatasetWorker.exception: log, re-raise in debug mode
exception(dbg) ==
    [logged |-> 1, reraise |-> dbg]

\* mutant: the value is stored under the Cache Key although the body raised
handle_task_cache_raised(task, io) ==
    IF CacheHit(task)
    THEN /\ ret' = cache[get_cache_key(task)]
         /\ outcome' = [outcome EXCEPT ![task] = "cached"]
         /\ UNCHANGED <<files, cache, status, clock, loads, errlog, pc>>
    ELSE LET now == clock
             lm == load_memorious(task, io)
             branch == IF lm.raised THEN "none" ELSE body_branch(lm.file)
             raised == lm.raised \/ (branch = "archive" /\ io = "archive_file")
             ex == exception(debug)
         IN /\ clock' = clock + 1
            /\ loads' = loads + 1
            /\ IF raised
               THEN /\ status' = [status EXCEPT !.not_found = @ + lm.not_found]
                    /\ errlog' = errlog + ex.logged
                    /\ pc' = IF ex.reraise THEN "raised" ELSE pc
                    /\ outcome' = [outcome EXCEPT ![task] = "raised"]
                    /\ cache' = [c \in DOMAIN cache \cup {get_cache_key(task)} |->
                                    IF c = get_cache_key(task) THEN now ELSE cache[c]]
                    /\ UNCHANGED <<files, ret>>
               ELSE /\ files' = IF branch = "archive"
                                 THEN archive_file([lm.file[1] EXCEPT
                                          !.extra = dict_pop(@, "_file_name")])
                                 ELSE files
                    /\ status' = [added |-> status.added + (IF branch = "archive" THEN 1 ELSE 0),
                                  skipped |-> status.skipped + (IF branch = "skip" THEN 1 ELSE 0),
                                  not_found |-> status.not_found + lm.not_found]
                    /\ cache' = [c \in DOMAIN cache \cup {get_cache_key(task)} |->
                                    IF c = get_cache_key(task) THEN now ELSE cache[c]]
                    /\ ret' = now
                    /\ outcome' = [outcome EXCEPT ![task] =
                                      IF branch = "archive" THEN "added"
                                      ELSE IF branch = "skip" THEN "skipped"
                                      ELSE "not_found"]
                    /\ UNCHANGED <<errlog, pc>>

handle_task(task, io) ==
    IF CacheHit(task)
    THEN /\ ret' = cache[get_cache_key(task)]
         /\ outcome' = [outcome EXCEPT ![task] = "cached"]
         /\ UNCHANGED <<files, cache, status, clock, loads, errlog, pc>>
    ELSE LET now == clock
             lm == load_memorious(task, io)
             branch == IF lm.raised THEN "none" ELSE body_branch(lm.file)
             raised == lm.raised \/ (branch = "archive" /\ io = "archive_file")
             ex == exception(debug)
         IN /\ clock' = clock + 1
            /\ loads' = loads + 1
            /\ IF raised
               THEN /\ status' = [status EXCEPT !.not_found = @ + lm.not_found]
                    /\ errlog' = errlog + ex.logged
                    /\ pc' = IF ex.reraise THEN "raised" ELSE pc
                    /\ outcome' = [outcome EXCEPT ![task] = "raised"]
                    /\ UNCHANGED <<files, cache, ret>>
               ELSE /\ files' = IF branch = "archive"
                                 THEN archive_file([lm.file[1] EXCEPT
                                          !.extra = dict_pop(@, "_file_name")])
                                 ELSE files
                    /\ status' = [added |-> status.added + (IF branch = "archive" THEN 1 ELSE 0),
                                  skipped |-> status.skipped + (IF branch = "skip" THEN 1 ELSE 0),
                                  not_found |-> status.not_found + lm.not_found]
                    /\ cache' = [c \in DOMAIN cache \cup {get_cache_key(task)} |->
                                    IF c = get_cache_key(task) THEN now ELSE cache[c]]
                    /\ ret' = now
                    /\ outcome' = [outcome EXCEPT ![task] =
                                      IF branch = "archive" THEN "added"
                                      ELSE IF branch = "skip" THEN "skipped"
                                      ELSE "not_found"]
                    /\ UNCHANGED <<errlog, pc>>

\* ------------------------------------------------------------- the run
\* mutant: the worker of the previous run, with its status, is reused
import_memorious_keep_status ==
    /\ pc \in {"idle", "returned", "raised"}
    /\ run < MaxRuns
    /\ run' = run + 1
    /\ pc' = "running"
    /\ queue' = get_tasks
    /\ status' = status
    /\ outcome' = [t \in Tasks |-> "pending"]
    /\ loads' = 0
    /\ errlog' = 0
    /\ doneCalls' = 0
    /\ prev' = [files |-> files, status |-> status, pc |-> pc,
                raised |-> {t \in Tasks : outcome[t] = "raised"}]
    /\ start' = [keys |-> DOMAIN files,
                 uncached |-> {t \in Tasks : get_cache_key(t) \notin DOMAIN cache}]
    /\ UNCHANGED <<memorious, key_func, debug, files, cache, clock, ret,
                   documents, index, size>>
    /\ UNCHANGED <<stageVars, auxVars>>

\* import_memorious: a new worker (fresh status) and run()
import_memorious ==
    /\ pc \in {"idle", "returned", "raised"}
    /\ run < MaxRuns
    /\ run' = run + 1
    /\ pc' = "running"
    /\ queue' = get_tasks
    /\ status' = ZeroStatus
    /\ outcome' = [t \in Tasks |-> "pending"]
    /\ loads' = 0
    /\ errlog' = 0
    /\ doneCalls' = 0
    /\ prev' = [files |-> files, status |-> status, pc |-> pc,
                raised |-> {t \in Tasks : outcome[t] = "raised"}]
    /\ start' = [keys |-> DOMAIN files,
                 uncached |-> {t \in Tasks : get_cache_key(t) \notin DOMAIN cache}]
    /\ UNCHANGED <<memorious, key_func, debug, files, cache, clock, ret,
                   documents, index, size>>
    /\ UNCHANGED <<stageVars, auxVars>>

\* run(): the next task of get_tasks() goes to handle_task
Consume ==
    /\ pc = "running"
    /\ queue # <<>>
    /\ \E io \in IOFail : handle_task(Head(queue), io)
    /\ queue' = Tail(queue)
    /\ UNCHANGED <<memorious, key_func, debug, run, doneCalls, documents,
                   index, size, prev, start>>
    /\ UNCHANGED <<stageVars, auxVars>>

\* MemoriousWorker.done, then run() returns the status
done ==
    /\ pc = "running"
    /\ queue = <<>>
    /\ documents' = Cardinality(DOMAIN files)
    /\ index' = files
    /\ size' = SumSize(files, DOMAIN files)
    /\ doneCalls' = doneCalls + 1
    /\ pc' = "returned"
    /\ UNCHANGED <<memorious, key_func, debug, files, cache, clock, status,
                   queue, run, outcome, ret, loads, errlog, prev, start>>
    /\ UNCHANGED <<stageVars, auxVars>>

EmptyFn ==
    [x \in {} |-> 0]

StageIdle ==
    /\ lf_pc = "out"
    /\ lf_tmp = 0
    /\ lf_downloaded = FALSE
    /\ lf_exit = "none"
    /\ lf_file = <<>>
    /\ lf_calls = 0
    /\ lf_uri = None
    /\ lf_store = None
    /\ temps = {}

CliIdle ==
    [dataset |-> None, opt |-> None, cmd |-> None, pc |-> "off", result |-> None,
     body |-> 0, reads |-> 0]

EmptyReport ==
    [checked |-> {}, failed |-> {}, removed |-> {}, missing |-> {}]

KeyArgIdle ==
    key_arg = <<>>

ParIdle ==
    inflight = EmptyFn

PureIdle ==
    /\ fn_pc = "off"
    /\ fn_in = <<>>
    /\ fn_out = <<>>

IndexIdle ==
    /\ blobs = EmptyFn
    /\ versions = <<>>
    /\ report = EmptyReport

AuxIdle ==
    /\ KeyArgIdle
    /\ ParIdle
    /\ PureIdle
    /\ cli = CliIdle
    /\ IndexIdle

WorkerIdle ==
    /\ files = EmptyFn
    /\ cache = EmptyFn
    /\ clock = 1
    /\ status = ZeroStatus
    /\ pc = "idle"
    /\ queue = <<>>
    /\ run = 0
    /\ outcome = [t \in Tasks |-> "pending"]
    /\ ret = 0
    /\ loads = 0
    /\ errlog = 0
    /\ doneCalls = 0
    /\ documents = 0
    /\ index = EmptyFn
    /\ size = 0
    /\ prev = [files |-> EmptyFn, status |-> ZeroStatus, pc |-> "idle", raised |-> {}]
    /\ start = [keys |-> {}, uncached |-> Tasks]

Init ==
    /\ memorious \in [Tasks -> MetaSet]
    /\ key_func \in KeyFuncs
    /\ debug \in BOOLEAN
    /\ WorkerIdle
    /\ StageIdle
    /\ AuxIdle

Next ==
    \/ import_memorious
    \/ Consume
    \/ done

Spec ==
    Init /\ [][Next]_vars


\* --------------------------------------------- DatasetWorker.local_file
\* the objects local_file is asked for, and the stores they live in
StageUris == {"file:///data/a.txt", "s3://bucket/a.txt", "s3://bucket/b.txt"}

StageStores == {None, "local", "remote"}

get_store_for_uri(uri) ==
    IF uri = "file:///data/a.txt" THEN "local" ELSE "remote"

ObjSize(uri) ==
    IF uri = "s3://bucket/b.txt" THEN 2 ELSE 1

ObjHash(uri) ==
    IF uri = "s3://bucket/b.txt" THEN "h2" ELSE "h1"

\* tmp = None; resolve the store; a remote object is downloaded into a
\* temporary store of get_virtual()
local_file_enter ==
    /\ lf_pc = "out"
    /\ lf_calls < MaxScopes
    /\ \E uri \in StageUris, st \in StageStores, dl \in BOOLEAN :
        LET store == IF st = None THEN get_store_for_uri(uri) ELSE st
            tmp == lf_calls + 1
        IN /\ lf_calls' = lf_calls + 1
           /\ lf_uri' = uri
           /\ lf_file' = <<>>
           /\ IF store = "local"
              THEN /\ lf_tmp' = 0
                   /\ lf_store' = store
                   /\ lf_downloaded' = FALSE
                   /\ lf_pc' = "derive"
                   /\ lf_exit' = "none"
                   /\ UNCHANGED temps
              ELSE /\ lf_tmp' = tmp
                   /\ temps' = temps \cup {tmp}
                   /\ lf_downloaded' = dl
                   /\ lf_store' = IF dl THEN "tmp" ELSE store
                   /\ lf_pc' = IF dl THEN "derive" ELSE "out"
                   /\ lf_exit' = IF dl THEN "none" ELSE "download_error"
    /\ UNCHANGED <<workerVars, auxVars>>

\* store.info, store.checksum, File.from_info: before the try block
local_file_derive ==
    /\ lf_pc = "derive"
    /\ \E ok \in BOOLEAN :
        IF ok
        THEN /\ lf_file' = << [uri |-> lf_uri, size |-> ObjSize(lf_uri),
                               content_hash |-> ObjHash(lf_uri),
                               dataset |-> DatasetName, store |-> lf_store] >>
             /\ lf_pc' = "body"
             /\ lf_exit' = "none"
        ELSE /\ lf_file' = <<>>
             /\ lf_pc' = "out"
             /\ lf_exit' = "derive_error"
    /\ UNCHANGED <<lf_tmp, lf_downloaded, lf_calls, lf_uri, lf_store, temps>>
    /\ UNCHANGED <<workerVars, auxVars>>

\* yield file: the caller's body ends, normally or with an error; finally
local_file_exit ==
    /\ lf_pc = "body"
    /\ \E ok \in BOOLEAN :
        lf_exit' = IF ok THEN "normal" ELSE "body_error"
    /\ temps' = IF lf_tmp # 0 THEN temps \ {lf_tmp} ELSE temps
    /\ lf_pc' = "out"
    /\ UNCHANGED <<lf_tmp, lf_downloaded, lf_file, lf_calls, lf_uri, lf_store>>
    /\ UNCHANGED <<workerVars, auxVars>>

InitStage ==
    /\ memorious = [t \in Tasks |-> Meta(None, None, CHOOSE u \in Urls : TRUE)]
    /\ key_func = "get_file_key"
    /\ debug = FALSE
    /\ WorkerIdle
    /\ StageIdle
    /\ AuxIdle

NextStage ==
    \/ local_file_enter
    \/ local_file_derive
    \/ local_file_exit

SpecStage ==
    InitStage /\ [][NextStage]_vars

\* C1: once local_file has downloaded a remote object into a temporary
\* store, that store is released when the scope is left, on every exit
\* path (body completed, body raised, File derivation raised).
C1_TempReleasedOnEveryExit ==
    (lf_pc = "out" /\ lf_downloaded) => lf_tmp \notin temps


\* ------------------------------------------------ notions of the claims
\* the metadata object of task t carries a checksum and a payload reference
HasFile(t) ==
    "content_hash" \in DOMAIN memorious[t] /\ "_file_name" \in DOMAIN memorious[t]

\* the dataset key the active policy derives for task t
DerivedKey(t) ==
    strip(key_func_apply(key_func, key_arg, memorious[t]))

\* the File Record handle_task registers for task t
RecordOf(t) ==
    [load_memorious(t, "ok").file[1] EXCEPT !.extra = dict_pop(@, "_file_name")]

\* the run is about to hand task t to handle_task
Handling(t) ==
    pc = "running" /\ queue # <<>> /\ Head(queue) = t

Cached(t) ==
    get_cache_key(t) \in DOMAIN cache

\* tasks whose body ran to its end in the current run and derived key k
Completed(k) ==
    {t \in Tasks : outcome[t] \in {"added", "skipped"} /\ DerivedKey(t) = k}

First(S) ==
    CHOOSE t \in S : \A u \in S : t <= u

Last(S) ==
    CHOOSE t \in S : \A u \in S : u <= t

NoneRaised ==
    \A t \in Tasks : outcome[t] # "raised"

\* C2: handle_task of a task whose Cache Key holds a value loads no
\* metadata, leaves the dataset and the counters alone and returns the
\* stored value.
C2_CachedTaskNotExecuted ==
    [][\A t \in Tasks : (Handling(t) /\ Cached(t)) =>
          /\ loads' = loads
          /\ files' = files
          /\ status' = status
          /\ ret' = cache[get_cache_key(t)]]_vars

C2_Witness ==
    \E t \in Tasks :
        /\ outcome[t] = "cached"
        /\ ret = cache[get_cache_key(t)]
        /\ HasFile(t)
        /\ DerivedKey(t) \in DOMAIN files

\* C3: a second import over the unchanged source, after a first one in
\* which no task failed, leaves the set of File Records as the first run
\* left it and counts added = 0.
C3_SecondRunIdempotent ==
    (pc = "returned" /\ run >= 2 /\ prev.pc = "returned" /\ prev.raised = {}
        /\ NoneRaised)
    => (files = prev.files /\ status.added = 0)

C3_Witness ==
    /\ pc = "returned"
    /\ run >= 2
    /\ prev.pc = "returned"
    /\ prev.raised = {}
    /\ prev.status.added > 0
    /\ files = prev.files
    /\ status.added = 0

\* C4 (as claimed): the second run's skipped counter equals the first
\* run's added counter.
C4_SkippedEqualsFirstAdded ==
    (pc = "returned" /\ run >= 2 /\ prev.pc = "returned" /\ prev.raised = {}
        /\ NoneRaised)
    => status.skipped = prev.status.added

\* C4 (amended): with the same cache, the second run's skipped counter is
\* at most the number of tasks the first run left without a cached value,
\* and is 0 when no task of the first run failed.
C4_SecondRunSkipsOnlyUncached ==
    (pc = "returned" /\ run >= 2)
    => /\ status.skipped <= Cardinality(start.uncached)
       /\ (prev.pc = "returned" /\ prev.raised = {}) => status.skipped = 0

C4_Witness ==
    /\ pc = "returned"
    /\ run >= 2
    /\ prev.pc = "returned"
    /\ prev.raised = {}
    /\ prev.status.added > 0
    /\ status.skipped = 0

\* C5: with debug off no error leaves run(): after a task raised, the
\* tasks still pending are exactly those still queued, done() runs once,
\* after every task was handled, and run() returns.
C5_NonStrictRunCompletes ==
    ~debug =>
        /\ pc # "raised"
        /\ doneCalls = (IF pc = "returned" THEN 1 ELSE 0)
        /\ pc = "running" =>
              {t \in Tasks : outcome[t] = "pending"} = {queue[i] : i \in 1..Len(queue)}
        /\ pc = "returned" =>
              (queue = <<>> /\ \A t \in Tasks : outcome[t] # "pending")

C5_Witness ==
    /\ ~debug
    /\ pc = "returned"
    /\ doneCalls = 1
    /\ \E t, u \in Tasks :
          t < u /\ outcome[t] = "raised" /\ outcome[u] \in {"added", "not_found"}

\* C6: with debug on, the first task that raises is logged once and ends
\* the run with the error: no later task is started and done() is not
\* invoked.
C6_StrictRunAborts ==
    debug =>
        \A t \in Tasks : outcome[t] = "raised" =>
            /\ pc = "raised"
            /\ errlog = 1
            /\ doneCalls = 0
            /\ \A u \in Tasks : u > t => outcome[u] = "pending"
            /\ \A u \in Tasks : u < t => outcome[u] \notin {"pending", "raised"}

C6_Witness ==
    /\ debug
    /\ pc = "raised"
    /\ outcome[1] = "raised"
    /\ outcome[2] = "pending"
    /\ errlog = 1
    /\ doneCalls = 0

\* C7: an executed task whose metadata has no content_hash, or has one but
\* no _file_name, counts not_found by one, counts nothing else and
\* registers nothing.
C7_NotFoundCounted ==
    [][\A t \in Tasks :
          (Handling(t) /\ ~Cached(t) /\ ~HasFile(t) /\ outcome'[t] # "raised") =>
              /\ status'.not_found = status.not_found + 1
              /\ status'.added = status.added
              /\ status'.skipped = status.skipped
              /\ files' = files]_vars

C7_Witness ==
    \E t \in Tasks :
        /\ outcome[t] = "not_found"
        /\ "content_hash" \in DOMAIN memorious[t]
        /\ "_file_name" \notin DOMAIN memorious[t]
        /\ status.not_found >= 1

\* C8: an executed task whose derived key exists in the dataset counts
\* skipped by one and leaves every File Record as it was, whatever its own
\* payload is.
C8_ExistingKeySkipped ==
    [][\A t \in Tasks :
          (Handling(t) /\ ~Cached(t) /\ HasFile(t) /\ DerivedKey(t) \in DOMAIN files
              /\ outcome'[t] # "raised") =>
              /\ status'.skipped = status.skipped + 1
              /\ status'.added = status.added
              /\ status'.not_found = status.not_found
              /\ files' = files]_vars

C8_Witness ==
    \E t \in Tasks :
        /\ outcome[t] = "skipped"
        /\ status.skipped >= 1
        /\ files[DerivedKey(t)] # RecordOf(t)
        /\ files[DerivedKey(t)].size # RecordOf(t).size
        /\ files[DerivedKey(t)].content_hash # RecordOf(t).content_hash

\* C9: when two or more tasks of one run derive the same key, free when
\* the run started, and their bodies run to the end, the File Record of
\* the one handled first is the one in the dataset and every later one is
\* counted as skipped.
C9_FirstWriteWins ==
    \A t \in Tasks :
        LET k == DerivedKey(t)
            S == Completed(k)
        IN (HasFile(t) /\ k \notin start.keys /\ Cardinality(S) >= 2) =>
              /\ k \in DOMAIN files
              /\ files[k] = RecordOf(First(S))
              /\ outcome[First(S)] = "added"
              /\ \A u \in S \ {First(S)} : outcome[u] = "skipped"

C9_Witness ==
    /\ pc = "returned"
    /\ \E t, u \in Tasks :
          /\ t < u
          /\ outcome[t] = "added"
          /\ outcome[u] = "skipped"
          /\ DerivedKey(t) = DerivedKey(u)
          /\ RecordOf(t) # RecordOf(u)
          /\ files[DerivedKey(t)] = RecordOf(t)
          /\ status.skipped >= 1

\* C10 (as claimed): after two tasks deriving the same key were handled,
\* the File Record in the dataset is the one of the task handled last.
C10_LastWriteWins ==
    \A t \in Tasks :
        LET k == DerivedKey(t)
            S == Completed(k)
        IN (HasFile(t) /\ k \notin start.keys /\ Cardinality(S) >= 2) =>
              (k \in DOMAIN files /\ files[k] = RecordOf(Last(S)))

\* C10 (amended): a File Record, once registered under a key, is never
\* replaced or removed by a later task deriving the same key: the
\* collision is resolved first-write-wins.
C10_RegisteredRecordKept ==
    [][\A k \in DOMAIN files : k \in DOMAIN files' /\ files'[k] = files[k]]_vars

C10_Witness ==
    /\ key_func = "get_file_name"
    /\ \E t, u \in Tasks :
          /\ t < u
          /\ outcome[t] = "added"
          /\ outcome[u] = "skipped"
          /\ memorious[t]["url"] # memorious[u]["url"]
          /\ DerivedKey(t) = DerivedKey(u)
          /\ files[DerivedKey(u)] = RecordOf(t)
          /\ files[DerivedKey(u)] # RecordOf(u)

\* C11: every File Record the import registered carries in extra every
\* field of its metadata object, content_hash and _file_name included, with
\* the original value.
C11_ExtraIsFullMetadata ==
    \A t \in Tasks : outcome[t] = "added" =>
        \A f \in DOMAIN memorious[t] :
            /\ f \in DOMAIN files[DerivedKey(t)].extra
            /\ files[DerivedKey(t)].extra[f] = memorious[t][f]

\* ------------------------------------- the key policies as pure functions
PathTokens == {"/", "a", "b", "%20", "%2F"}

PrefixTokens == {"/", "a", "b"}

SeqsUpTo(S, n) ==
    UNION {[1..m -> S] : m \in 0..n}

\* the path of https://x/a/b%20c.txt
ExamplePath == <<"/", "a", "/", "b", "%20", "c.txt">>

KeyInputs ==
    [url : {[scheme |-> "https", netloc |-> "x", path |-> p] :
                p \in SeqsUpTo(PathTokens, MaxPathLen) \cup {ExamplePath}},
     strip_prefix : SeqsUpTo(PrefixTokens, MaxPrefixLen)]

\* the three policies of cli_sync_memorious applied to {"url": url}
key_policies ==
    /\ fn_pc = "call"
    /\ LET data == [url |-> fn_in.url] IN
        fn_out' = [key |-> get_file_key(data),
                   name |-> get_file_name(data),
                   stripped |-> get_file_name_strip_func(fn_in.strip_prefix, data)]
    /\ fn_pc' = "return"
    /\ UNCHANGED <<fn_in, key_arg, inflight, cli, blobs, versions, report>>
    /\ UNCHANGED <<workerVars, stageVars>>

InitKeys ==
    /\ memorious = [t \in Tasks |-> Meta(None, None, CHOOSE u \in Urls : TRUE)]
    /\ key_func = "get_file_key"
    /\ debug = FALSE
    /\ WorkerIdle
    /\ StageIdle
    /\ KeyArgIdle
    /\ ParIdle
    /\ cli = CliIdle
    /\ IndexIdle
    /\ fn_pc = "call"
    /\ fn_in \in KeyInputs
    /\ fn_out = <<>>

NextKeys ==
    key_policies

SpecKeys ==
    InitKeys /\ [][NextKeys]_vars

\* what the claims call percent-decoding
PercentDecoded(c) ==
    CASE c = "%20" -> " "
      [] c = "%2F" -> "/"
      [] OTHER -> c

DecodedPath(p) ==
    [i \in 1..Len(p) |-> PercentDecoded(p[i])]

\* r is d without its leading and trailing slashes
IsSlashStripped(r, d) ==
    /\ r # <<>> => (r[1] # "/" /\ r[Len(r)] # "/")
    /\ \E i, j \in 0..Len(d) :
          /\ i + j <= Len(d)
          /\ r = SubSeq(d, i + 1, Len(d) - j)
          /\ \A m \in 1..i : d[m] = "/"
          /\ \A m \in (Len(d) - j + 1)..Len(d) : d[m] = "/"

\* seg is the final segment of the path p (slashes that end p aside)
IsFinalSegment(seg, p) ==
    /\ \A m \in 1..Len(seg) : seg[m] # "/"
    /\ \E i, j \in 0..Len(p) :
          /\ i + Len(seg) + j = Len(p)
          /\ seg = SubSeq(p, i + 1, i + Len(seg))
          /\ i > 0 => p[i] = "/"
          /\ \A m \in (Len(p) - j + 1)..Len(p) : p[m] = "/"
          /\ seg = <<>> => \A m \in 1..Len(p) : p[m] = "/"

\* C12: get_file_key returns the percent-decoded URL path without its
\* leading and trailing slashes, get_file_name the percent-decoded final
\* segment; for https://x/a/b%20c.txt these are "a/b c.txt" and "b c.txt".
C12_DefaultAndNameOnlyKeys ==
    fn_pc = "return" =>
        LET p == fn_in.url.path IN
        /\ IsSlashStripped(fn_out.key, DecodedPath(p))
        /\ \E i, n \in 0..Len(p) :
              /\ i + n <= Len(p)
              /\ IsFinalSegment(SubSeq(p, i + 1, i + n), p)
              /\ fn_out.name = DecodedPath(SubSeq(p, i + 1, i + n))
        /\ p = ExamplePath =>
              /\ fn_out.key = <<"a", "/", "b", " ", "c.txt">>
              /\ fn_out.name = <<"b", " ", "c.txt">>

C12_Witness ==
    /\ fn_pc = "return"
    /\ fn_in.url.path = ExamplePath
    /\ fn_out.key = <<"a", "/", "b", " ", "c.txt">>
    /\ fn_out.name = <<"b", " ", "c.txt">>

\* C13 (as claimed): strip-prefix(P) returns the default key with P removed
\* when P is a prefix of that key, and the default key unchanged when P is
\* not a prefix of it.
C13_StripPrefixOfP ==
    fn_pc = "return" =>
        LET P == fn_in.strip_prefix
            k == fn_out.key
        IN IF Len(P) <= Len(k) /\ SubSeq(k, 1, Len(P)) = P
           THEN \E rest \in {SubSeq(k, Len(P) + 1, Len(k))} :
                    IsSlashStripped(fn_out.stripped, rest)
           ELSE fn_out.stripped = k

\* C13 (amended): with P' = P without its leading and trailing slashes,
\* strip-prefix(P) returns the default key with P' and the slashes that
\* follow it removed when P' is a prefix of that key, and the default key
\* unchanged otherwise.
C13_StripPrefixOfStrippedP ==
    fn_pc = "return" =>
        \E n \in 0..Len(fn_in.strip_prefix), m \in 0..Len(fn_in.strip_prefix) :
            LET sp == SubSeq(fn_in.strip_prefix, n + 1, Len(fn_in.strip_prefix) - m)
                k == fn_out.key
            IN /\ n + m <= Len(fn_in.strip_prefix)
               /\ IsSlashStripped(sp, fn_in.strip_prefix)
               /\ IF Len(sp) <= Len(k) /\ SubSeq(k, 1, Len(sp)) = sp
                  THEN IsSlashStripped(fn_out.stripped, SubSeq(k, Len(sp) + 1, Len(k)))
                  ELSE fn_out.stripped = k

C13_Witness ==
    /\ fn_pc = "return"
    /\ fn_in.strip_prefix = <<"/", "a">>
    /\ fn_in.url.path = <<"/", "a", "/", "b">>
    /\ fn_out.key = <<"a", "/", "b">>
    /\ fn_out.stripped = <<"b">>

\* ------------------------------------------ the cache key as a function
\* memorious stores: two local directories (urlparse gives the empty
\* netloc), two locations on one host, one on another host
StoreUris ==
    { [scheme |-> "", netloc |-> "", path |-> <<"/", "m">>],
      [scheme |-> "", netloc |-> "", path |-> <<"/", "n">>],
      [scheme |-> "s3", netloc |-> "bucket", path |-> <<"/", "m">>],
      [scheme |-> "s3", netloc |-> "bucket", path |-> <<"/", "n">>],
      [scheme |-> "s3", netloc |-> "other", path |-> <<"/", "m">>] }

DatasetNames == {"test_dataset", "other_dataset"}

TaskKeys == {"1.json", "2.json"}

Units ==
    [dataset : DatasetNames, uri : StoreUris, task : TaskKeys]

\* two workers compute the Cache Key of their unit of work
cache_keys ==
    /\ fn_pc = "call"
    /\ fn_out' = [k1 |-> get_cache_key_of(fn_in.u1.dataset, fn_in.u1.uri, fn_in.u1.task),
                  k2 |-> get_cache_key_of(fn_in.u2.dataset, fn_in.u2.uri, fn_in.u2.task)]
    /\ fn_pc' = "return"
    /\ UNCHANGED <<fn_in, key_arg, inflight, cli, blobs, versions, report>>
    /\ UNCHANGED <<workerVars, stageVars>>

InitCacheKeys ==
    /\ memorious = [t \in Tasks |-> Meta(None, None, CHOOSE u \in Urls : TRUE)]
    /\ key_func = "get_file_key"
    /\ debug = FALSE
    /\ WorkerIdle
    /\ StageIdle
    /\ KeyArgIdle
    /\ ParIdle
    /\ cli = CliIdle
    /\ IndexIdle
    /\ fn_pc = "call"
    /\ fn_in \in [u1 : Units, u2 : Units]
    /\ fn_out = <<>>

NextCacheKeys ==
    cache_keys

SpecCacheKeys ==
    InitCacheKeys /\ [][NextCacheKeys]_vars

\* C14: two units of work that differ in dataset name, in source store or
\* in task identifier never get the same Cache Key.
C14_DistinctUnitsDistinctKeys ==
    fn_pc = "return" => (fn_in.u1 # fn_in.u2 => fn_out.k1 # fn_out.k2)

\* ------------------------------------------ the import under every policy
\* key policies of cli_sync_memorious, with their strip_prefix / tmpl
Policies ==
    { <<"get_file_key", <<>>>>,
      <<"get_file_name", <<>>>>,
      <<"get_file_name_strip_func", <<"/", "a">>>>,
      <<"get_file_name_strip_func", <<"b">>>>,
      <<"get_file_name_templ_func", <<"/", "d", "/", "{_file_name}", "/">>>>,
      <<"get_file_name_templ_func", <<"{_file_name}">>>> }

\* source urls whose name ends, or whose path starts, with an escaped slash
PolicyUrls ==
    { [scheme |-> "https", netloc |-> "x", path |-> <<"/", "a", "/", "x">>],
      [scheme |-> "https", netloc |-> "x", path |-> <<"/", "a", "/", "x", "%2F">>],
      [scheme |-> "https", netloc |-> "x", path |-> <<"/", "%2F", "b", "/">>] }

InitPolicies ==
    /\ memorious \in [Tasks -> {Meta("h1", "f1", u) : u \in PolicyUrls}]
    /\ \E p \in Policies : key_func = p[1] /\ key_arg = p[2]
    /\ debug = FALSE
    /\ WorkerIdle
    /\ StageIdle
    /\ ParIdle
    /\ PureIdle
    /\ cli = CliIdle
    /\ IndexIdle

SpecPolicies ==
    InitPolicies /\ [][Next]_vars

\* C15: whatever the key policy, every File Record the import registered
\* has a key without leading and without trailing slash.
C15_RegisteredKeysSlashFree ==
    \A k \in DOMAIN files :
        /\ files[k].key = k
        /\ k # <<>> => (k[1] # "/" /\ k[Len(k)] # "/")

C15_Witness ==
    \E t \in Tasks :
        LET raw == key_func_apply(key_func, key_arg, memorious[t]) IN
        /\ outcome[t] = "added"
        /\ raw # <<>>
        /\ raw[1] = "/" \/ raw[Len(raw)] = "/"
        /\ DerivedKey(t) \in DOMAIN files
        /\ DerivedKey(t) # raw

\* --------------------------------------------------------- the commands
\* commands whose body is inside `with Dataset() as dataset`
DatasetCommands ==
    {"versions", "diff", "make", "get", "head", "ls", "crawl", "export",
     "memorious sync", "aleph sync"}

\* commands whose body is inside `with ErrorHandler()`
PlainCommands ==
    {"config", "catalog", "aleph load-dataset", "aleph load-catalog"}

\* the value of the -d option: not given, empty, a dataset
DatasetOptions == {None, "", DatasetName}

\* mutant: the dataset is handed to the body without looking at it
no_dataset_never(state) ==
    FALSE

\* not STATE["dataset"]
no_dataset(state) ==
    state = None

\* cli_ftm_datalake, the callback that runs before every command
cli_ftm_datalake ==
    /\ cli.pc = "callback"
    /\ cli' = IF cli.opt \notin {None, ""}
              THEN [cli EXCEPT !.dataset = cli.opt, !.reads = @ + 1, !.pc = "enter"]
              ELSE [cli EXCEPT !.pc = "enter"]
    /\ UNCHANGED <<key_arg, inflight, fn_pc, fn_in, fn_out, blobs, versions, report>>
    /\ UNCHANGED <<workerVars, stageVars>>

\* Dataset.__enter__
Dataset_enter ==
    /\ cli.pc = "enter"
    /\ cli.cmd \in DatasetCommands
    /\ cli' = IF no_dataset(cli.dataset)
              THEN [cli EXCEPT !.pc = "exited",
                               !.result = IF debug THEN "ImproperlyConfigured"
                                          ELSE "Exit(1)"]
              ELSE [cli EXCEPT !.pc = "body"]
    /\ UNCHANGED <<key_arg, inflight, fn_pc, fn_in, fn_out, blobs, versions, report>>
    /\ UNCHANGED <<workerVars, stageVars>>

\* ErrorHandler.__enter__
ErrorHandler_enter ==
    /\ cli.pc = "enter"
    /\ cli.cmd \in PlainCommands
    /\ cli' = [cli EXCEPT !.pc = "body"]
    /\ UNCHANGED <<key_arg, inflight, fn_pc, fn_in, fn_out, blobs, versions, report>>
    /\ UNCHANGED <<workerVars, stageVars>>

\* the body of the command: it works on the archive and ends normally or
\* with an exception
command_body ==
    /\ cli.pc = "body"
    /\ \E out \in {"ok", "Exception", "BrokenPipeError"} :
        cli' = [cli EXCEPT !.pc = "exit", !.result = out, !.body = @ + 1,
                           !.reads = @ + 1]
    /\ UNCHANGED <<key_arg, inflight, fn_pc, fn_in, fn_out, blobs, versions, report>>
    /\ UNCHANGED <<workerVars, stageVars>>

\* ErrorHandler.__exit__
ErrorHandler_exit ==
    /\ cli.pc = "exit"
    /\ cli' = [cli EXCEPT !.pc = "exited",
                          !.result = IF cli.result \in {"ok", "BrokenPipeError"} THEN @
                                     ELSE IF debug THEN @
                                     ELSE "Exit(1)"]
    /\ UNCHANGED <<key_arg, inflight, fn_pc, fn_in, fn_out, blobs, versions, report>>
    /\ UNCHANGED <<workerVars, stageVars>>

InitCli ==
    /\ memorious = [t \in Tasks |-> Meta(None, None, CHOOSE u \in Urls : TRUE)]
    /\ key_func = "get_file_key"
    /\ debug \in BOOLEAN
    /\ WorkerIdle
    /\ StageIdle
    /\ KeyArgIdle
    /\ ParIdle
    /\ PureIdle
    /\ IndexIdle
    /\ \E c \in DatasetCommands \cup PlainCommands, o \in DatasetOptions :
          cli = [CliIdle EXCEPT !.cmd = c, !.opt = o, !.pc = "callback"]

NextCli ==
    \/ cli_ftm_datalake
    \/ Dataset_enter
    \/ ErrorHandler_enter
    \/ command_body
    \/ ErrorHandler_exit

SpecCli ==
    InitCli /\ [][NextCli]_vars

\* C16: a command that needs a dataset, run without one selected by -d,
\* ends in Dataset.__enter__ with ImproperlyConfigured (debug) or exit code
\* 1; its body never runs and the archive is neither read nor changed.
C16_NoDatasetNoBody ==
    (cli.cmd \in DatasetCommands /\ cli.opt \in {None, ""}) =>
        /\ cli.body = 0
        /\ cli.reads = 0
        /\ cli.pc \in {"callback", "enter", "exited"}
        /\ cli.pc = "exited" =>
              cli.result = (IF debug THEN "ImproperlyConfigured" ELSE "Exit(1)")

C16_Witness ==
    /\ cli.cmd = "memorious sync"
    /\ cli.opt = None
    /\ cli.pc = "exited"
    /\ ~debug
    /\ cli.result = "Exit(1)"
    /\ cli.body = 0

\* ------------------------------------------------ the diff of two versions
DiffKeys == 1..MaxDiffKeys

FileStates ==
    { [size |-> 1, content_hash |-> "h1"],
      [size |-> 2, content_hash |-> "h1"],
      [size |-> 1, content_hash |-> "h2"] }

\* a version: the File Records (size, content_hash) by key
IndexVersions ==
    UNION {[D -> FileStates] : D \in SUBSET DiffKeys}

EmptyDiff ==
    [added |-> {}, removed |-> {}, changed |-> {}]

\* mutant: a key counts as changed only when its size differs
diff_entry_size_only(k, v1, v2, acc) ==
    IF k \notin DOMAIN v1 THEN [acc EXCEPT !.added = @ \cup {k}]
    ELSE IF k \notin DOMAIN v2 THEN [acc EXCEPT !.removed = @ \cup {k}]
    ELSE IF v1[k].size # v2[k].size THEN [acc EXCEPT !.changed = @ \cup {k}]
    ELSE acc

\* one key of either version goes to added, removed, changed or nowhere
diff_entry(k, v1, v2, acc) ==
    IF k \notin DOMAIN v1 THEN [acc EXCEPT !.added = @ \cup {k}]
    ELSE IF k \notin DOMAIN v2 THEN [acc EXCEPT !.removed = @ \cup {k}]
    ELSE IF v1[k].size # v2[k].size \/ v1[k].content_hash # v2[k].content_hash
    THEN [acc EXCEPT !.changed = @ \cup {k}]
    ELSE acc

RECURSIVE diff_over(_, _, _, _)
diff_over(keys, v1, v2, acc) ==
    IF keys = {} THEN acc
    ELSE LET k == CHOOSE x \in keys : TRUE
         IN diff_over(keys \ {k}, v1, v2, diff_entry(k, v1, v2, acc))

diff(v1, v2) ==
    diff_over(DOMAIN v1 \cup DOMAIN v2, v1, v2, EmptyDiff)

\* cli_diff: the diff of a version against the one before it
cli_diff ==
    /\ fn_pc = "call"
    /\ fn_out' = diff(fn_in.v1, fn_in.v2)
    /\ fn_pc' = "return"
    /\ UNCHANGED <<fn_in, key_arg, inflight, cli, blobs, versions, report>>
    /\ UNCHANGED <<workerVars, stageVars>>

InitDiff ==
    /\ memorious = [t \in Tasks |-> Meta(None, None, CHOOSE u \in Urls : TRUE)]
    /\ key_func = "get_file_key"
    /\ debug = FALSE
    /\ WorkerIdle
    /\ StageIdle
    /\ KeyArgIdle
    /\ ParIdle
    /\ cli = CliIdle
    /\ IndexIdle
    /\ fn_pc = "call"
    /\ fn_in \in [v1 : IndexVersions, v2 : IndexVersions]
    /\ fn_out = <<>>

NextDiff ==
    cli_diff

SpecDiff ==
    InitDiff /\ [][NextDiff]_vars

\* C17: diff(v1, v2) reports as added the keys of v2 that v1 lacks, as
\* removed the keys of v1 that v2 lacks, as changed the keys of both whose
\* size or content_hash differs; {k1,k2} against {k2,k3} with k2 unchanged
\* gives added {k3}, removed {k1}, changed {}.
C17_DiffOfVersions ==
    fn_pc = "return" =>
        LET v1 == fn_in.v1
            v2 == fn_in.v2
        IN /\ fn_out.added = DOMAIN v2 \ DOMAIN v1
           /\ fn_out.removed = DOMAIN v1 \ DOMAIN v2
           /\ fn_out.changed = {k \in DOMAIN v1 \cap DOMAIN v2 : v1[k] # v2[k]}
           /\ (DOMAIN v1 = {1, 2} /\ DOMAIN v2 = {2, 3} /\ v1[2] = v2[2]) =>
                 fn_out = [added |-> {3}, removed |-> {1}, changed |-> {}]

C17_Witness ==
    /\ fn_pc = "return"
    /\ DOMAIN fn_in.v1 = {1, 2}
    /\ DOMAIN fn_in.v2 = {2, 3}
    /\ fn_in.v1[2] = fn_in.v2[2]
    /\ fn_out = [added |-> {3}, removed |-> {1}, changed |-> {}]

\* --------------------------------------------- index rebuilds and versions
IndexKeys == {"k1", "k2"}

IndexFile(k) ==
    [key |-> k, size |-> 1, content_hash |-> "h1"]

Restrict(f, S) ==
    [k \in S |-> f[k]]

\* the File Records whose backing object is gone from the Object Store
orphans(fs, bl) ==
    {k \in DOMAIN fs : k \notin DOMAIN bl}

\* mutant: the rebuild rewrites the latest version instead of adding one
add_version_inplace(vs, v) ==
    IF vs = <<>> THEN <<v>> ELSE [vs EXCEPT ![Len(vs)] = v]

\* a rebuild stores its snapshot under a new marker
add_version(vs, v) ==
    Append(vs, v)

\* the markers, oldest first
get_versions ==
    [i \in 1..Len(versions) |-> i]

get_version(marker) ==
    versions[marker]

\* rebuild(dataset, check_integrity, cleanup): the File Records kept, the
\* snapshot with its flagged keys, and the report
make_dataset(fs, bl, check_integrity, cleanup) ==
    LET gone == orphans(fs, bl)
        kept == IF cleanup THEN Restrict(fs, DOMAIN fs \ gone) ELSE fs
    IN [files |-> kept,
        version |-> [files |-> kept, missing |-> gone \cap DOMAIN kept],
        report |-> [checked |-> IF check_integrity THEN DOMAIN fs \ gone ELSE {},
                    failed |-> {},
                    removed |-> gone \ DOMAIN kept,
                    missing |-> gone \cap DOMAIN kept]]

\* archive_file: the object and its File Record are stored together
index_archive_file ==
    \E k \in IndexKeys :
        /\ ~exists(k)
        /\ files' = archive_file(IndexFile(k))
        /\ blobs' = [x \in DOMAIN blobs \cup {k} |-> "h1"]
        /\ UNCHANGED <<memorious, key_func, debug, cache, clock, status, pc, queue,
                       run, outcome, ret, loads, errlog, doneCalls, documents,
                       index, size, prev, start>>
        /\ UNCHANGED <<key_arg, inflight, fn_pc, fn_in, fn_out, cli, versions, report>>
        /\ UNCHANGED stageVars

\* an object is deleted from the Object Store behind the dataset's back
delete_object ==
    \E k \in DOMAIN blobs :
        /\ blobs' = Restrict(blobs, DOMAIN blobs \ {k})
        /\ UNCHANGED <<key_arg, inflight, fn_pc, fn_in, fn_out, cli, versions, report>>
        /\ UNCHANGED <<workerVars, stageVars>>

\* mutant: the --no-cleanup choice is not handed on
cli_make_always_cleanup ==
    \E cleanup, check_integrity, dataset_metadata_only \in BOOLEAN :
        /\ IF dataset_metadata_only
           THEN /\ index' = files
                /\ UNCHANGED <<files, versions, report, fn_in>>
           ELSE LET made == make_dataset(files, blobs, check_integrity, TRUE)
                IN /\ Len(versions) < MaxVersions
                   /\ fn_in' = [check_integrity |-> check_integrity, cleanup |-> cleanup]
                   /\ files' = made.files
                   /\ versions' = add_version(versions, made.version)
                   /\ report' = made.report
                   /\ index' = made.files
        /\ UNCHANGED <<memorious, key_func, debug, cache, clock, status, pc, queue,
                       run, outcome, ret, loads, errlog, doneCalls, documents,
                       size, prev, start>>
        /\ UNCHANGED <<key_arg, inflight, fn_pc, fn_out, cli, blobs>>
        /\ UNCHANGED stageVars

\* cli_make: make_index alone, or the full rebuild with the options given
cli_make ==
    \E cleanup, check_integrity, dataset_metadata_only \in BOOLEAN :
        /\ IF dataset_metadata_only
           THEN /\ index' = files
                /\ UNCHANGED <<files, versions, report, fn_in>>
           ELSE LET made == make_dataset(files, blobs, check_integrity, cleanup)
                IN /\ Len(versions) < MaxVersions
                   /\ fn_in' = [check_integrity |-> check_integrity, cleanup |-> cleanup]
                   /\ files' = made.files
                   /\ versions' = add_version(versions, made.version)
                   /\ report' = made.report
                   /\ index' = made.files
        /\ UNCHANGED <<memorious, key_func, debug, cache, clock, status, pc, queue,
                       run, outcome, ret, loads, errlog, doneCalls, documents,
                       size, prev, start>>
        /\ UNCHANGED <<key_arg, inflight, fn_pc, fn_out, cli, blobs>>
        /\ UNCHANGED stageVars

\* cli_versions: the markers of the versions made so far
cli_versions ==
    /\ fn_out' = get_versions
    /\ UNCHANGED <<key_arg, inflight, fn_pc, fn_in, cli, blobs, versions, report>>
    /\ UNCHANGED <<workerVars, stageVars>>

InitIndex ==
    /\ memorious = [t \in Tasks |-> Meta(None, None, CHOOSE u \in Urls : TRUE)]
    /\ key_func = "get_file_key"
    /\ debug = FALSE
    /\ WorkerIdle
    /\ StageIdle
    /\ AuxIdle

NextIndex ==
    \/ index_archive_file
    \/ delete_object
    \/ cli_make
    \/ cli_versions

SpecIndex ==
    InitIndex /\ [][NextIndex]_vars

\* the step is a rebuild that made a new version
Rebuilt ==
    Len(versions') = Len(versions) + 1

NewVersion ==
    versions'[Len(versions')]

\* C18: a rebuild drops a File Record without backing object from the new
\* version exactly when cleanup is true; with cleanup false the record stays
\* in the new version and is flagged; a File Record with a backing object is
\* in the new version under either setting.
C18_OrphanCleanup ==
    [][Rebuilt =>
        /\ \A k \in orphans(files, blobs) :
              IF fn_in'.cleanup
              THEN k \notin DOMAIN NewVersion.files /\ k \in report'.removed
              ELSE /\ k \in DOMAIN NewVersion.files
                   /\ k \in NewVersion.missing
                   /\ k \in report'.missing
        /\ \A k \in DOMAIN files \ orphans(files, blobs) :
              /\ k \in DOMAIN NewVersion.files
              /\ NewVersion.files[k] = files[k]
              /\ k \notin NewVersion.missing
              /\ k \notin report'.removed]_vars

\* two versions: one made with cleanup off that keeps and flags an orphan
\* next to a backed record, then one made with cleanup on that drops it
C18_Witness ==
    /\ Len(versions) = 2
    /\ \E k, b \in IndexKeys :
          /\ k # b
          /\ k \in versions[1].missing
          /\ b \in DOMAIN versions[1].files
          /\ b \notin versions[1].missing
          /\ k \notin DOMAIN versions[2].files
          /\ b \in DOMAIN versions[2].files
          /\ k \in report.removed
          /\ fn_in.cleanup

\* C19: every version made earlier stays retrievable by its marker with the
\* payload it had; a rebuild adds a version and leaves the others alone.
C19_VersionsImmutable ==
    [][/\ \A i \in DOMAIN get_versions :
             /\ get_versions[i] \in DOMAIN versions'
             /\ versions'[get_versions[i]] = get_version(get_versions[i])
       /\ Rebuilt => DOMAIN versions' = DOMAIN versions \cup {Len(versions) + 1}]_vars

\* two versions with different payloads, both listed
C19_Witness ==
    /\ Len(versions) = 2
    /\ versions[1] # versions[2]
    /\ fn_out = <<1, 2>>

\* ------------------------------------------------ tasks handled in parallel
\* the memoized return of a task body: the value is stored under the cache key
cache_put(task, now) ==
    [c \in DOMAIN cache \cup {get_cache_key(task)} |->
        IF c = get_cache_key(task) THEN now ELSE cache[c]]

\* handle_task up to the existence check, taken by a free thread of the pool;
\* a body that is to archive stays in flight with the File it loaded
handle_task_check ==
    /\ pc = "running"
    /\ queue # <<>>
    /\ Cardinality(DOMAIN inflight) < MaxThreads
    /\ queue' = Tail(queue)
    /\ LET task == Head(queue) IN
       IF CacheHit(task)
       THEN /\ ret' = cache[get_cache_key(task)]
            /\ outcome' = [outcome EXCEPT ![task] = "cached"]
            /\ UNCHANGED <<cache, status, clock, loads, errlog, inflight>>
       ELSE \E io \in {"ok", "get", "info"} :
            LET now == clock
                lm == load_memorious(task, io)
                branch == IF lm.raised THEN "none" ELSE body_branch(lm.file)
            IN /\ clock' = clock + 1
               /\ loads' = loads + 1
               /\ status' = [status EXCEPT
                                !.not_found = @ + lm.not_found,
                                !.skipped = @ + (IF branch = "skip" THEN 1 ELSE 0)]
               /\ errlog' = errlog + (IF lm.raised THEN exception(debug).logged ELSE 0)
               /\ IF branch = "archive"
                  THEN /\ inflight' = [t \in DOMAIN inflight \cup {task} |->
                                          IF t = task
                                          THEN [file |-> lm.file[1], now |-> now]
                                          ELSE inflight[t]]
                       /\ UNCHANGED <<cache, ret, outcome>>
                  ELSE /\ outcome' = [outcome EXCEPT ![task] =
                                         IF lm.raised THEN "raised"
                                         ELSE IF branch = "skip" THEN "skipped"
                                         ELSE "not_found"]
                       /\ cache' = IF lm.raised THEN cache ELSE cache_put(task, now)
                       /\ ret' = IF lm.raised THEN ret ELSE now
                       /\ UNCHANGED inflight
    /\ UNCHANGED <<memorious, key_func, debug, files, pc, run, doneCalls, documents,
                   index, size, prev, start>>
    /\ UNCHANGED <<key_arg, fn_pc, fn_in, fn_out, cli, blobs, versions, report>>
    /\ UNCHANGED stageVars

\* handle_task after the existence check: archive_file, count(added=1), return
handle_task_archive ==
    \E task \in DOMAIN inflight, io \in {"ok", "archive_file"} :
        /\ pc = "running"
        /\ inflight' = Restrict(inflight, DOMAIN inflight \ {task})
        /\ IF io = "archive_file"
           THEN /\ errlog' = errlog + exception(debug).logged
                /\ outcome' = [outcome EXCEPT ![task] = "raised"]
                /\ UNCHANGED <<files, status, cache, ret>>
           ELSE /\ files' = archive_file([inflight[task].file EXCEPT
                                             !.extra = dict_pop(@, "_file_name")])
                /\ status' = [status EXCEPT !.added = @ + 1]
                /\ cache' = cache_put(task, inflight[task].now)
                /\ ret' = inflight[task].now
                /\ outcome' = [outcome EXCEPT ![task] = "added"]
                /\ UNCHANGED errlog
        /\ UNCHANGED <<memorious, key_func, debug, clock, pc, queue, run, loads,
                       doneCalls, documents, index, size, prev, start>>
        /\ UNCHANGED <<key_arg, fn_pc, fn_in, fn_out, cli, blobs, versions, report>>
        /\ UNCHANGED stageVars

\* done() starts when the pool has finished every task
done_joined ==
    /\ ParIdle
    /\ done

InitPar ==
    /\ memorious \in [Tasks -> MetaSet]
    /\ key_func \in KeyFuncs
    /\ debug = FALSE
    /\ WorkerIdle
    /\ StageIdle
    /\ AuxIdle

NextPar ==
    \/ import_memorious
    \/ handle_task_check
    \/ handle_task_archive
    \/ done_joined

SpecPar ==
    InitPar /\ [][NextPar]_vars

\* C20: with tasks handled in parallel, the added counter of a finished run
\* is the number of File Records that exist after the run and did not exist
\* before it.
C20_AddedCountsNewRecords ==
    pc = "returned" => status.added = Cardinality(DOMAIN files \ start.keys)

\* ------------------------------------------------- counters of a run
\* outcomes of a task body that ran to its end
BodyDone ==
    {"added", "skipped", "not_found"}

Counted(st) ==
    st.added + st.skipped + st.not_found

\* C21: a task body that returns adds exactly 1 to exactly one of added,
\* skipped, not_found; a cache hit and a body that raises add nothing; so the
\* sum of the counters is the number of bodies completed so far in the run
\* and never more than the number of tasks enumerated.
C21_OneCountPerCompletedBody ==
    /\ [][\A t \in Tasks : (Handling(t) /\ queue' = Tail(queue)) =>
            /\ outcome'[t] = "added" =>
                  status' = [status EXCEPT !.added = @ + 1]
            /\ outcome'[t] = "skipped" =>
                  status' = [status EXCEPT !.skipped = @ + 1]
            /\ outcome'[t] = "not_found" =>
                  status' = [status EXCEPT !.not_found = @ + 1]
            /\ outcome'[t] \in {"cached", "raised"} => status' = status
            /\ outcome'[t] \in BodyDone \cup {"cached", "raised"}
            /\ (Cached(t) <=> outcome'[t] = "cached")]_vars
    /\ [](/\ Counted(status) = Cardinality({t \in Tasks : outcome[t] \in BodyDone})
          /\ Counted(status) <= Len(get_tasks))

\* a finished run with a body that counted next to a task that did not
C21_Witness ==
    /\ pc = "returned"
    /\ Counted(status) = 1
    /\ \E t, u \in Tasks :
          /\ outcome[t] \in BodyDone
          /\ outcome[u] \in {"cached", "raised"}

\* C22: a task whose body raises stores nothing under its Cache Key, and in
\* a non-strict setting the next run executes its body again; a Cache Key
\* gets its value only from a body that returned (added, skipped, not_found).
C22_RaisedBodyNotCached ==
    [][\A t \in Tasks : (Handling(t) /\ queue' = Tail(queue)) =>
          /\ outcome'[t] = "raised" =>
                /\ cache' = cache
                /\ get_cache_key(t) \notin DOMAIN cache'
          /\ DOMAIN cache' \ DOMAIN cache =
                IF outcome'[t] \in BodyDone THEN {get_cache_key(t)} ELSE {}
          /\ (~debug /\ t \in prev.raised) =>
                /\ ~Cached(t)
                /\ loads' = loads + 1
                /\ outcome'[t] # "cached"]_vars

\* a non-strict second run has executed again, to its end, the body of a task
\* that raised in the first run, next to a task it took from the cache
C22_Witness ==
    /\ ~debug
    /\ run = 2
    /\ pc = "returned"
    /\ \E t, u \in Tasks :
          /\ t \in prev.raised
          /\ outcome[t] \in BodyDone
          /\ Cached(t)
          /\ outcome[u] = "cached"

\* ------------------------------------------------ the steps of done()
\* documents = self.dataset.documents.write()
done_documents_write ==
    /\ pc = "running"
    /\ queue = <<>>
    /\ documents' = Cardinality(DOMAIN files)
    /\ pc' = "done_make_index"
    /\ UNCHANGED <<memorious, key_func, debug, files, cache, clock, status,
                   queue, run, outcome, ret, loads, errlog, doneCalls, index,
                   size, prev, start>>
    /\ UNCHANGED <<stageVars, auxVars>>

\* mutant: the index is left as the previous rebuild wrote it
done_make_index_skipped ==
    /\ pc = "done_make_index"
    /\ index' = index
    /\ pc' = "done_make_size"
    /\ UNCHANGED <<memorious, key_func, debug, files, cache, clock, status,
                   queue, run, outcome, ret, loads, errlog, doneCalls, documents,
                   size, prev, start>>
    /\ UNCHANGED <<stageVars, auxVars>>

\* self.dataset.make_index()
done_make_index ==
    /\ pc = "done_make_index"
    /\ index' = files
    /\ pc' = "done_make_size"
    /\ UNCHANGED <<memorious, key_func, debug, files, cache, clock, status,
                   queue, run, outcome, ret, loads, errlog, doneCalls, documents,
                   size, prev, start>>
    /\ UNCHANGED <<stageVars, auxVars>>

\* self.dataset.make_size(), the summary log, and run() returns
done_make_size ==
    /\ pc = "done_make_size"
    /\ size' = SumSize(files, DOMAIN files)
    /\ doneCalls' = doneCalls + 1
    /\ pc' = "returned"
    /\ UNCHANGED <<memorious, key_func, debug, files, cache, clock, status,
                   queue, run, outcome, ret, loads, errlog, documents, index,
                   prev, start>>
    /\ UNCHANGED <<stageVars, auxVars>>

\* non-strict runs
InitDone ==
    /\ memorious \in [Tasks -> MetaSet]
    /\ key_func \in KeyFuncs
    /\ debug = FALSE
    /\ WorkerIdle
    /\ StageIdle
    /\ AuxIdle

NextDone ==
    \/ import_memorious
    \/ Consume
    \/ done_documents_write
    \/ done_make_index
    \/ done_make_size

SpecDone ==
    InitDone /\ [][NextDone]_vars

\* the current run has written the file listing / rebuilt the index
ListingWritten ==
    pc \in {"done_make_index", "done_make_size", "returned"}

IndexRebuilt ==
    pc \in {"done_make_size", "returned"}

\* C23: in a non-strict run done() starts when no task is left to handle,
\* writes the file listing, then rebuilds the index, then recomputes the
\* size, and only then run() returns; the dataset is not touched meanwhile,
\* so at the return the index holds every File Record the run counted as
\* added.
C23_DoneAfterTasksInOrder ==
    /\ [][/\ (pc = "running" /\ pc' # "running") =>
                /\ \A t \in Tasks : outcome[t] # "pending"
                /\ queue = <<>>
                /\ documents' = Cardinality(DOMAIN files)
                /\ ListingWritten' /\ ~IndexRebuilt'
                /\ UNCHANGED <<index, size, doneCalls>>
          /\ index' # index => (ListingWritten /\ ~IndexRebuilt /\ IndexRebuilt')
          /\ (IndexRebuilt' /\ ~IndexRebuilt) => (index' = files /\ size' = size)
          /\ size' # size => (IndexRebuilt /\ pc' = "returned")
          /\ (pc' = "returned" /\ pc # "returned") =>
                /\ IndexRebuilt
                /\ size' = SumSize(files, DOMAIN files)
                /\ doneCalls' = doneCalls + 1
          /\ ListingWritten => UNCHANGED <<files, status, cache>> \/ pc' = "running"]_vars
    /\ [](pc = "returned" =>
             /\ doneCalls = 1
             /\ documents = Cardinality(DOMAIN files)
             /\ index = files
             /\ status.added = Cardinality(DOMAIN index \ start.keys)
             /\ \A t \in Tasks : outcome[t] = "added" =>
                   /\ DerivedKey(t) \in DOMAIN index
                   /\ DerivedKey(t) \notin start.keys)

\* a second run that added a File Record (its task had raised before) has
\* returned, and the index holds it next to the record of the first run
C23_Witness ==
    /\ pc = "returned"
    /\ run = 2
    /\ status.added = 1
    /\ start.keys # {}
    /\ \E t \in Tasks :
          /\ outcome[t] = "added"
          /\ DerivedKey(t) \in DOMAIN index
          /\ index[DerivedKey(t)] = RecordOf(t)

====
